---------------------------- MODULE Spec2Model ----------------------------
(***************************************************************************)
(* Model of branch-protection-sync: executor.Run reads the source          *)
(* repository's branch protection, lists the organisation's repositories   *)
(* and setter.SetRuleset applies the protection to every repository from   *)
(* one goroutine per repository, admitted through a buffered channel used  *)
(* as a counting semaphore and gated by checkAndHandleRateLimit.           *)
(*                                                                         *)
(* Time is kept relative: untilReset is the time left until the upstream   *)
(* rate window resets, wait[i] the time a sleeping task still has to       *)
(* sleep, resetIn[i] the time left until the reset time that task i was    *)
(* told by its rate-limit query.                                           *)
(***************************************************************************)
EXTENDS Integers, Sequences, FiniteSets

VARIABLES
    pc,             \* position of executor.Run / setter.SetRuleset (main goroutine)
    exit,           \* "none", or how the process died: "fatal" (log.Fatal*), "panic"
    exitBy,         \* 0: the main goroutine, i: the goroutine of repos[i]
    exitCause,      \* which call ended the process
    fetched,        \* what the read phase has fetched so far
    ruleset,        \* the *github.Protection handed to SetRuleset
    repos,          \* the target list
    semaphoreCount, \* capacity of the semaphore channel
    semaphore,      \* number of elements in the semaphore channel
    wg,             \* the WaitGroup counter
    next,           \* number of loop iterations of SetRuleset done (tasks launched)
    tpc,            \* position of the goroutine of repos[i]
    wait,           \* remaining sleep of goroutine i in time.Sleep
    obsRemaining,   \* rateLimits.Core.Remaining as read by goroutine i
    resetIn,        \* time left until the resetTime goroutine i sleeps for
    status,         \* response.StatusCode goroutine i got from its apply call (0: none)
    outcome,        \* what was logged for repos[i]
    queries,        \* rate-limit queries made by goroutine i
    calls,          \* apply calls issued by goroutine i
    payloads,       \* the results convertProtectionToRequest has given so far
    cancelled,      \* the context handed to SetRuleset has been cancelled
    remaining,      \* upstream: requests left in the current window
    untilReset,     \* upstream: time left until the window resets
    issued,         \* upstream: apply calls received in the current window
    windowBudget    \* upstream: requests that were left when the window began (or the run)

vars == << pc, exit, exitBy, exitCause, fetched, ruleset, repos, semaphoreCount,
           semaphore, wg, next, tpc, wait, obsRemaining, resetIn, status,
           outcome, queries, calls, payloads, cancelled, remaining, untilReset,
           issued, windowBudget >>

runVars  == << pc, fetched, ruleset, repos >>
semVars  == << semaphoreCount, semaphore, wg, next >>
taskVars == << tpc, wait, obsRemaining, resetIn, status, outcome, queries, calls,
              payloads >>
rateVars == << remaining, untilReset, issued, windowBudget >>
exitVars == << exit, exitBy, exitCause >>

-----------------------------------------------------------------------------
(* Bounds of the model *)

\* target lists of every length 0..MaxShort are explored
MaxShort == 3
\* the 10-repository list of the spec's scenario (concurrency limit 1)
ScenarioLen == 10
\* a list long enough for a concurrency limit of 2
BigLen == 20
\* only the first MaxVaried entries of a list may be invalid repositories
MaxVaried == 2
\* requests per rate window granted by the upstream
Budget == 1
\* length of the upstream's rate window
Window == 1
\* longest list of the specification that checks the limit computation alone
MaxLen == 50
\* longest user, team or app list of a source configuration
MaxListLen == 1
\* largest required approving review count of a source configuration
MaxApprovals == 2

(* Program constants *)

\* len(repos) / 10
SemaphoreDivisor == 10
\* minimum number of semaphores
MinSemaphore == 1
\* time.Sleep(waitDuration + time.Second)
SleepBuffer == 1

Min(a, b) == IF a < b THEN a ELSE b
Max(a, b) == IF a > b THEN a ELSE b

-----------------------------------------------------------------------------
(* Inputs *)

\* a *github.Repository as far as SetRuleset looks at it
Kinds == {"valid", "nil", "noName", "noBranch"}

Lens == (0 .. MaxShort) \cup {ScenarioLen}

TargetLists ==
    UNION { { [i \in 1..n |-> IF i \in DOMAIN p THEN p[i] ELSE "valid"] :
                p \in [1 .. Min(n, MaxVaried) -> Kinds] } : n \in Lens }

\* the target lists of an organisation large enough for two slots
BigLists == { [i \in 1 .. BigLen |-> "valid"] }

\* the status codes an upstream response is tried with: success, the
\* existing-pattern answer, client errors with and without a case of their
\* own in HTTPStatusCodeCheck, and a server error
Statuses == {200, 303, 400, 403, 404, 422, 500}

\* []*github.User, []*github.Team and []*github.App of a source
\* configuration, each element as far as the translation reads it
UserLists == { [k \in 1 .. n |-> [Login |-> k]] : n \in 0 .. MaxListLen }
TeamLists == { [k \in 1 .. n |-> [Slug |-> k]] : n \in 0 .. MaxListLen }
AppLists == { [k \in 1 .. n |-> [Slug |-> k]] : n \in 0 .. MaxListLen }

\* a *github.DismissalRestrictions
DismissalRestrictions(users, teams) ==
    [ isNil |-> FALSE, Users |-> users, Teams |-> teams ]
NilDismissalRestrictions ==
    [ isNil |-> TRUE, Users |-> << >>, Teams |-> << >> ]

\* a *github.PullRequestReviewsEnforcement
PullRequestReviewsEnforcement(stale, owners, count, dismissal) ==
    [ isNil |-> FALSE,
      DismissStaleReviews |-> stale, RequireCodeOwnerReviews |-> owners,
      RequiredApprovingReviewCount |-> count,
      DismissalRestrictions |-> dismissal ]
NilPullRequestReviewsEnforcement ==
    [ isNil |-> TRUE,
      DismissStaleReviews |-> FALSE, RequireCodeOwnerReviews |-> FALSE,
      RequiredApprovingReviewCount |-> 0,
      DismissalRestrictions |-> NilDismissalRestrictions ]

\* a *github.BranchRestrictions
BranchRestrictions(users, teams, apps) ==
    [ isNil |-> FALSE, Users |-> users, Teams |-> teams, Apps |-> apps ]
NilBranchRestrictions ==
    [ isNil |-> TRUE, Users |-> << >>, Teams |-> << >>, Apps |-> << >> ]

\* a *github.Protection as far as convertProtectionToRequest reads it.
\* RequiredStatusChecks is "nil" or the object the pointer leads to;
\* EnforceAdmins and the last four sub-objects are "nil" when the sub-object
\* is absent, else its Enabled field ("true" or "false")
FullProtection(checks, reviews, admins, restrictions, lin, force, del, conv) ==
    [ isNil |-> FALSE,
      RequiredStatusChecks |-> checks,
      RequiredPullRequestReviews |-> reviews,
      EnforceAdmins |-> admins,
      Restrictions |-> restrictions,
      RequireLinearHistory |-> lin, AllowForcePushes |-> force,
      AllowDeletions |-> del, RequiredConversationResolution |-> conv ]

\* a protection with none of the optional sections, and the four sub-objects
\* convertProtectionToRequest dereferences without a nil check
Protection(lin, force, del, conv) ==
    FullProtection("nil", NilPullRequestReviewsEnforcement, "nil",
                   NilBranchRestrictions, lin, force, del, conv)

NilProtection ==
    [ isNil |-> TRUE,
      RequiredStatusChecks |-> "nil",
      RequiredPullRequestReviews |-> NilPullRequestReviewsEnforcement,
      EnforceAdmins |-> "nil",
      Restrictions |-> NilBranchRestrictions,
      RequireLinearHistory |-> "nil", AllowForcePushes |-> "nil",
      AllowDeletions |-> "nil", RequiredConversationResolution |-> "nil" ]

\* the source configurations a run is tried with
SourceConfigs ==
    { Protection("true", "false", "false", "true"),
      Protection("nil", "false", "false", "true") }

\* the source configurations the translation is tried with
ReviewConfigs ==
    {NilPullRequestReviewsEnforcement} \cup
    { PullRequestReviewsEnforcement(stale, owners, count, dismissal) :
        stale \in BOOLEAN, owners \in BOOLEAN, count \in {0, MaxApprovals},
        dismissal \in {NilDismissalRestrictions} \cup
            { DismissalRestrictions(u, t) : u \in UserLists, t \in TeamLists } }

RestrictionConfigs ==
    {NilBranchRestrictions} \cup
    { BranchRestrictions(u, t, a) :
        u \in UserLists, t \in TeamLists, a \in AppLists }

-----------------------------------------------------------------------------
(* Pure functions of the program *)

\* helpers.HTTPStatusCodeCheck: "nil", an error with its message, or "fatal"
\* when the function itself ends the process with log.Fatalf
HTTPStatusCodeCheck(statuscode) ==
    CASE statuscode \in {200, 201} -> [kind |-> "nil", msg |-> ""]
      [] statuscode = 303 ->
            [kind |-> "error", msg |-> "same branch name pattern already exists"]
      [] statuscode \in {400, 401} -> [kind |-> "nil", msg |-> ""]
      [] statuscode = 403 -> [kind |-> "error", msg |-> "Forbidden"]
      [] statuscode = 404 -> [kind |-> "error", msg |-> "resource not found"]
      [] statuscode \in {405, 406, 409, 410} -> [kind |-> "nil", msg |-> ""]
      [] statuscode = 422 ->
            [kind |-> "error",
             msg |-> "Validation failed, or the endpoint has been spammed"]
      [] OTHER -> [kind |-> "fatal", msg |-> "HTTP request failed with status code"]

\* the number of semaphores: one tenth of the repositories, with a minimum of 1
SemaphoreCountNoMinimum(n) == n \div SemaphoreDivisor
SemaphoreCountOf(n) ==
    IF n \div SemaphoreDivisor < MinSemaphore THEN MinSemaphore
    ELSE n \div SemaphoreDivisor

\* semaphore <- struct{}{} goes through when the channel buffer has room
CanAcquireOneTooMany(len, cap) == len <= cap
CanAcquire(len, cap) == len < cap

\* repo == nil || repo.Name == nil || repo.DefaultBranch == nil
MissingInformationNoBranchTest(repo) == repo = "nil" \/ repo = "noName"
MissingInformation(repo) == repo = "nil" \/ repo = "noName" \/ repo = "noBranch"

\* rateLimits.Core.Remaining < 1
RateLimitExceeded(rem) == rem < 1

\* waitDuration + time.Second, with waitDuration the time until the reset
SleepDurationNoBuffer(until) == until - SleepBuffer
SleepDuration(until) == until + SleepBuffer

\* convertProtectionToRequest takes &protection.X.Enabled of these four
\* sub-objects: a nil one is a nil pointer dereference
TranslationPanics(protection) ==
    \/ protection.RequireLinearHistory = "nil"
    \/ protection.AllowForcePushes = "nil"
    \/ protection.AllowDeletions = "nil"
    \/ protection.RequiredConversationResolution = "nil"

\* a Go slice: nil, or a slice holding elems (an empty one is not nil)
Slice(elems) == [ isNil |-> FALSE, elems |-> elems ]
NilSlice == [ isNil |-> TRUE, elems |-> << >> ]

\* user.GetLogin() of each user, team.GetSlug() / app.GetSlug() of each
\* team or app, appended in order
Logins(users) == [k \in 1 .. Len(users) |-> users[k].Login]
Slugs(list) == [k \in 1 .. Len(list) |-> list[k].Slug]

\* &github.DismissalRestrictionsRequest{} and the nil pointer to one
NilDismissalRestrictionsRequest ==
    [ isNil |-> TRUE, Users |-> NilSlice, Teams |-> NilSlice ]

\* convertPRDismissalRestrictionsToRequest
convertPRDismissalRestrictionsToRequest(dr) ==
    [ isNil |-> FALSE,
      Users |-> IF Len(dr.Users) > 0 THEN Slice(Logins(dr.Users))
                ELSE Slice(<< >>),
      Teams |-> IF Len(dr.Teams) > 0 THEN Slice(Slugs(dr.Teams))
                ELSE Slice(<< >>) ]

\* &github.BranchRestrictionsRequest{}: the zero value, its slices nil
ZeroBranchRestrictionsRequest ==
    [ isNil |-> FALSE, Users |-> NilSlice, Teams |-> NilSlice, Apps |-> NilSlice ]
NilBranchRestrictionsRequest ==
    [ isNil |-> TRUE, Users |-> NilSlice, Teams |-> NilSlice, Apps |-> NilSlice ]

\* convertProtectionRestrictionToRequest
convertProtectionRestrictionToRequest(br) ==
    [ isNil |-> FALSE,
      Users |-> IF Len(br.Users) > 0 THEN Slice(Logins(br.Users))
                ELSE Slice(<< >>),
      Teams |-> IF Len(br.Teams) > 0 THEN Slice(Slugs(br.Teams))
                ELSE Slice(<< >>),
      Apps |-> IF Len(br.Apps) > 0 THEN Slice(Slugs(br.Apps))
               ELSE Slice(<< >>) ]

\* &github.PullRequestReviewsEnforcementRequest{}: the zero value, its
\* DismissalRestrictionsRequest pointer nil
ZeroPullRequestReviewsEnforcementRequest ==
    [ isNil |-> FALSE,
      DismissStaleReviews |-> FALSE, RequireCodeOwnerReviews |-> FALSE,
      RequiredApprovingReviewCount |-> 0,
      DismissalRestrictionsRequest |-> NilDismissalRestrictionsRequest ]
NilPullRequestReviewsEnforcementRequest ==
    [ isNil |-> TRUE,
      DismissStaleReviews |-> FALSE, RequireCodeOwnerReviews |-> FALSE,
      RequiredApprovingReviewCount |-> 0,
      DismissalRestrictionsRequest |-> NilDismissalRestrictionsRequest ]

\* &github.ProtectionRequest{}
ZeroProtectionRequest ==
    [ RequiredStatusChecks |-> "nil",
      RequiredPullRequestReviews |-> NilPullRequestReviewsEnforcementRequest,
      EnforceAdmins |-> "false",
      Restrictions |-> NilBranchRestrictionsRequest,
      RequireLinearHistory |-> "nil", AllowForcePushes |-> "nil",
      AllowDeletions |-> "nil", RequiredConversationResolution |-> "nil" ]

\* the request convertProtectionToRequest builds from a protection that is
\* not nil and has the four sub-objects it dereferences
ProtectionRequestOf(protection) ==
    [ RequiredStatusChecks |->
          IF protection.RequiredStatusChecks # "nil"
          THEN protection.RequiredStatusChecks
          ELSE ZeroProtectionRequest.RequiredStatusChecks,
      RequiredPullRequestReviews |->
          IF ~protection.RequiredPullRequestReviews.isNil
          THEN [ isNil |-> FALSE,
                 DismissStaleReviews |->
                     protection.RequiredPullRequestReviews.DismissStaleReviews,
                 RequireCodeOwnerReviews |->
                     protection.RequiredPullRequestReviews.RequireCodeOwnerReviews,
                 RequiredApprovingReviewCount |->
                     protection.RequiredPullRequestReviews.RequiredApprovingReviewCount,
                 DismissalRestrictionsRequest |->
                     IF ~protection.RequiredPullRequestReviews.DismissalRestrictions.isNil
                     THEN convertPRDismissalRestrictionsToRequest(
                              protection.RequiredPullRequestReviews.DismissalRestrictions)
                     ELSE NilDismissalRestrictionsRequest ]
          ELSE ZeroPullRequestReviewsEnforcementRequest,
      EnforceAdmins |->
          IF protection.EnforceAdmins # "nil" THEN protection.EnforceAdmins
          ELSE "false",
      Restrictions |->
          IF ~protection.Restrictions.isNil
          THEN convertProtectionRestrictionToRequest(protection.Restrictions)
          ELSE ZeroBranchRestrictionsRequest,
      RequireLinearHistory |-> protection.RequireLinearHistory,
      AllowForcePushes |-> protection.AllowForcePushes,
      AllowDeletions |-> protection.AllowDeletions,
      RequiredConversationResolution |->
          protection.RequiredConversationResolution ]

\* convertProtectionToRequest: the request it returns ("ok"), or how it ends
\* the process: log.Fatal on a nil protection, a nil pointer dereference on
\* an absent sub-object
convertProtectionToRequest(protection) ==
    IF protection.isNil
    THEN [ kind |-> "fatal", request |-> ZeroProtectionRequest ]
    ELSE IF TranslationPanics(protection)
    THEN [ kind |-> "panic", request |-> ZeroProtectionRequest ]
    ELSE [ kind |-> "ok", request |-> ProtectionRequestOf(protection) ]

\* the variant of a translation that consumes its argument, clearing the
\* linear-history flag once it has been read
ProtectionAfterConversionClearsFlag(protection) ==
    [protection EXCEPT !.RequireLinearHistory = "false"]

\* the variant of a translation that normalises its argument in place,
\* writing the default into an absent enforce-admins section
ProtectionAfterConversionFillsDefaults(protection) ==
    [protection EXCEPT !.EnforceAdmins = IF @ = "nil" THEN "false" ELSE @]

\* what the translation leaves of the protection it was handed: it only
\* reads its argument
ProtectionAfterConversion(protection) == protection

-----------------------------------------------------------------------------
(* Initial state *)

NoTasks == << >>

Init ==
    /\ pc = "getDefaultBranch"
    /\ exit = "none" /\ exitBy = 0 /\ exitCause = ""
    /\ fetched = {}
    /\ ruleset = NilProtection
    /\ repos = << >>
    /\ semaphoreCount = 0 /\ semaphore = 0 /\ wg = 0 /\ next = 0
    /\ tpc = NoTasks /\ wait = NoTasks /\ obsRemaining = NoTasks
    /\ resetIn = NoTasks /\ status = NoTasks /\ outcome = NoTasks
    /\ queries = NoTasks /\ calls = NoTasks /\ payloads = {}
    /\ cancelled = FALSE
    /\ remaining \in 0 .. Budget
    /\ windowBudget = remaining
    /\ untilReset \in 1 .. Window
    /\ issued = 0

\* log.Fatal / log.Fatalf: the message is logged and the process exits with status 1
Fatal(by, cause) ==
    /\ exit' = "fatal" /\ exitBy' = by /\ exitCause' = cause

\* a run-time panic of a goroutine takes the process down
Panic(by, cause) ==
    /\ exit' = "panic" /\ exitBy' = by /\ exitCause' = cause

-----------------------------------------------------------------------------
(* executor.Run: the read phase *)

\* getter.getDefaultBranch, called from getBranchProtection from GetRuleset
getDefaultBranch ==
    /\ exit = "none" /\ pc = "getDefaultBranch"
    /\ \E err \in BOOLEAN, hasBranch \in BOOLEAN :
         IF err
         THEN /\ Fatal(0, "GetRuleset")
              /\ UNCHANGED << runVars >>
         ELSE IF ~hasBranch
         THEN /\ Panic(0, "getDefaultBranch")
              /\ UNCHANGED << runVars >>
         ELSE /\ fetched' = fetched \cup {"defaultBranch"}
              /\ pc' = "getBranchProtection"
              /\ UNCHANGED << ruleset, repos, exitVars >>
    /\ UNCHANGED << cancelled, semVars, taskVars, rateVars >>

\* getter.getBranchProtection after the default branch is known, and the
\* error test of GetRuleset
getBranchProtection ==
    /\ exit = "none" /\ pc = "getBranchProtection"
    /\ \E err \in BOOLEAN, gp \in SourceConfigs :
         IF err
         THEN /\ Fatal(0, "GetRuleset")
              /\ UNCHANGED << runVars >>
         ELSE /\ ruleset' = gp
              /\ fetched' = fetched \cup {"protection"}
              /\ pc' = "GetAllReposFromOrg"
              /\ UNCHANGED << repos, exitVars >>
    /\ UNCHANGED << cancelled, semVars, taskVars, rateVars >>

\* getter.GetAllReposFromOrg (the pages concatenated, or the first error) and
\* the error test of Run
GetAllReposFromOrg ==
    /\ exit = "none" /\ pc = "GetAllReposFromOrg"
    /\ \E err \in BOOLEAN, allRepos \in TargetLists :
         IF err
         THEN /\ Fatal(0, "GetAllReposFromOrg")
              /\ UNCHANGED << runVars >>
         ELSE /\ repos' = allRepos
              /\ fetched' = fetched \cup {"repos"}
              /\ pc' = "SetRuleset"
              /\ UNCHANGED << ruleset, exitVars >>
    /\ UNCHANGED << cancelled, semVars, taskVars, rateVars >>

-----------------------------------------------------------------------------
(* setter.SetRuleset: the dispatcher *)

\* entry of SetRuleset: the semaphore channel and the WaitGroup are made
SetRulesetBegin ==
    /\ exit = "none" /\ pc = "SetRuleset"
    /\ semaphoreCount' = SemaphoreCountOf(Len(repos))
    /\ semaphore' = 0 /\ wg' = 0 /\ next' = 0
    /\ tpc' = [i \in 1 .. Len(repos) |-> "none"]
    /\ wait' = [i \in 1 .. Len(repos) |-> 0]
    /\ obsRemaining' = [i \in 1 .. Len(repos) |-> -1]
    /\ resetIn' = [i \in 1 .. Len(repos) |-> 0]
    /\ status' = [i \in 1 .. Len(repos) |-> 0]
    /\ outcome' = [i \in 1 .. Len(repos) |-> "none"]
    /\ queries' = [i \in 1 .. Len(repos) |-> 0]
    /\ calls' = [i \in 1 .. Len(repos) |-> 0]
    /\ payloads' = {}
    /\ pc' = "loop"
    /\ UNCHANGED << cancelled, fetched, ruleset, repos, rateVars, exitVars >>

\* the variant of the loop in which a goroutine asleep in
\* checkAndHandleRateLimit does not count against the limit: its slot is
\* handed to the next repository
LaunchCountsOnlyRunning ==
    /\ exit = "none" /\ pc = "loop"
    /\ next < Len(repos)
    /\ CanAcquire(semaphore - Cardinality({ i \in DOMAIN tpc : tpc[i] = "sleep" }),
                  semaphoreCount)
    /\ wg' = wg + 1
    /\ semaphore' = semaphore + 1
    /\ next' = next + 1
    /\ tpc' = [tpc EXCEPT ![next + 1] = "validate"]
    /\ UNCHANGED << cancelled, payloads, runVars, semaphoreCount, wait, obsRemaining, resetIn,
                    status, outcome, queries, calls, rateVars, exitVars >>

\* one iteration of the loop: wg.Add(1), acquire a slot (blocking while the
\* channel is full), start the goroutine of the next repository
Launch ==
    /\ exit = "none" /\ pc = "loop"
    /\ next < Len(repos)
    /\ CanAcquire(semaphore, semaphoreCount)
    /\ wg' = wg + 1
    /\ semaphore' = semaphore + 1
    /\ next' = next + 1
    /\ tpc' = [tpc EXCEPT ![next + 1] = "validate"]
    /\ UNCHANGED << cancelled, payloads, runVars, semaphoreCount, wait, obsRemaining, resetIn,
                    status, outcome, queries, calls, rateVars, exitVars >>

\* the loop is over: SetRuleset goes on to wg.Wait()
LoopEnd ==
    /\ exit = "none" /\ pc = "loop"
    /\ next = Len(repos)
    /\ pc' = "wgWait"
    /\ UNCHANGED << cancelled, fetched, ruleset, repos, semVars, taskVars, rateVars, exitVars >>

\* wg.Wait() returns when the counter is zero; SetRuleset and Run return
WgWait ==
    /\ exit = "none" /\ pc = "wgWait"
    /\ wg = 0
    /\ pc' = "returned"
    /\ UNCHANGED << cancelled, fetched, ruleset, repos, semVars, taskVars, rateVars, exitVars >>


-----------------------------------------------------------------------------
(* setter.SetRuleset: the goroutine of repos[i] *)

\* the variant of the validity test whose goroutine goes straight on to the
\* apply call, without the rate-limit check of lines 55-59
ValidateSkipsRateCheck(i) ==
    /\ exit = "none" /\ tpc[i] = "validate"
    /\ IF MissingInformation(repos[i])
       THEN /\ outcome' = [outcome EXCEPT ![i] = "skipped"]
            /\ tpc' = [tpc EXCEPT ![i] = "release"]
       ELSE /\ tpc' = [tpc EXCEPT ![i] = "apply"]
            /\ UNCHANGED outcome
    /\ UNCHANGED << cancelled, payloads, runVars, semVars, wait, obsRemaining, resetIn, status, queries,
                    calls, rateVars, exitVars >>

\* the variant of the validity test whose skip path ends the goroutine
\* without running the deferred calls: the slot is not given back
ValidateSkipLeaksSlot(i) ==
    /\ exit = "none" /\ tpc[i] = "validate"
    /\ IF MissingInformation(repos[i])
       THEN /\ outcome' = [outcome EXCEPT ![i] = "skipped"]
            /\ tpc' = [tpc EXCEPT ![i] = "ended"]
       ELSE /\ tpc' = [tpc EXCEPT ![i] = "rate"]
            /\ UNCHANGED outcome
    /\ UNCHANGED << cancelled, payloads, runVars, semVars, wait, obsRemaining, resetIn, status, queries,
                    calls, rateVars, exitVars >>

\* the validity test at the head of the goroutine; an invalid repository is
\* logged as skipped and the goroutine returns (its deferred calls run next)
Validate(i) ==
    /\ exit = "none" /\ tpc[i] = "validate"
    /\ IF MissingInformation(repos[i])
       THEN /\ outcome' = [outcome EXCEPT ![i] = "skipped"]
            /\ tpc' = [tpc EXCEPT ![i] = "release"]
       ELSE /\ tpc' = [tpc EXCEPT ![i] = "rate"]
            /\ UNCHANGED outcome
    /\ UNCHANGED << cancelled, payloads, runVars, semVars, wait, obsRemaining, resetIn, status, queries,
                    calls, rateVars, exitVars >>

\* client.RateLimits returned an error as goroutine i stood at `at`: the
\* variant in which the error is only logged, so that checkAndHandleRateLimit
\* returns false and the goroutine skips its repository
RateLimitsFailedSkipsRepo(i, at) ==
    /\ at = "rate"
    /\ tpc' = [tpc EXCEPT ![i] = "release"]
    /\ UNCHANGED exitVars

\* client.RateLimits returned an error as goroutine i stood at `at`:
\* log.Fatalf ends the process (the return false after it is never reached)
RateLimitsFailed(i, at) ==
    /\ at = "rate"
    /\ Fatal(i, "RateLimits")
    /\ UNCHANGED tpc

\* checkAndHandleRateLimit up to the start of time.Sleep: client.RateLimits,
\* fatal when it fails, else the test of Core.Remaining
checkAndHandleRateLimit(i) ==
    /\ exit = "none" /\ tpc[i] = "rate"
    /\ \E err \in BOOLEAN :
         \* a call made with a cancelled ctx returns the context's error
         /\ cancelled => err
         /\ IF err
            THEN /\ RateLimitsFailed(i, tpc[i])
                 /\ queries' = [queries EXCEPT ![i] = @ + 1]
                 /\ UNCHANGED << wait, obsRemaining, resetIn >>
            ELSE /\ queries' = [queries EXCEPT ![i] = @ + 1]
                 /\ obsRemaining' = [obsRemaining EXCEPT ![i] = remaining]
                 /\ IF RateLimitExceeded(remaining)
                    THEN /\ wait' = [wait EXCEPT ![i] = SleepDuration(untilReset)]
                         /\ tpc' = [tpc EXCEPT ![i] = "sleep"]
                    ELSE /\ tpc' = [tpc EXCEPT ![i] = "apply"]
                         /\ UNCHANGED wait
                 \* the reset time matters to a task told that nothing is left
                 /\ resetIn' = [resetIn EXCEPT ![i] =
                                   IF remaining < 1 THEN untilReset ELSE 0]
                 /\ UNCHANGED exitVars
    /\ UNCHANGED << cancelled, payloads, runVars, semVars, status, outcome, calls, rateVars >>

\* time.Sleep returns once the duration has passed (at once when it is not
\* positive); checkAndHandleRateLimit returns true
Wake(i) ==
    /\ exit = "none" /\ tpc[i] = "sleep"
    /\ wait[i] <= 0
    /\ tpc' = [tpc EXCEPT ![i] = "apply"]
    /\ UNCHANGED << cancelled, payloads, runVars, semVars, wait, obsRemaining, resetIn, status, outcome,
                    queries, calls, rateVars, exitVars >>

\* the upstream counts one request against the window
Consume ==
    /\ issued' = issued + 1
    /\ remaining' = Max(remaining - 1, 0)
    /\ UNCHANGED << untilReset, windowBudget >>

\* line 63 onwards: convertProtectionToRequest, setBranchProtectionRules
\* (client.Repositories.UpdateBranchProtection and HTTPStatusCodeCheck) and
\* the error test of the goroutine
setBranchProtectionRules(i) ==
    /\ exit = "none" /\ tpc[i] = "apply"
    /\ LET res == convertProtectionToRequest(ruleset) IN
         /\ payloads' = payloads \cup {res}
         /\ CASE res.kind = "fatal" ->
                   /\ Fatal(i, "convertProtectionToRequest")
                   /\ UNCHANGED << tpc, status, outcome, calls, rateVars >>
              [] res.kind = "panic" ->
                   /\ Panic(i, "convertProtectionToRequest")
                   /\ UNCHANGED << tpc, status, outcome, calls, rateVars >>
              [] OTHER ->
                   /\ calls' = [calls EXCEPT ![i] = @ + 1]
                   /\ Consume
                   /\ \E err \in BOOLEAN, statuscode \in Statuses :
                        \* a request beyond the window's budget is rejected upstream
                        /\ remaining = 0 => (err \/ statuscode = 403)
                        \* a call made with a cancelled ctx returns the context's error
                        /\ cancelled => err
                        /\ IF err
                           THEN /\ Fatal(i, "UpdateBranchProtection")
                                /\ UNCHANGED << tpc, status, outcome >>
                           ELSE /\ status' = [status EXCEPT ![i] = statuscode]
                                /\ LET err2 == HTTPStatusCodeCheck(statuscode) IN
                                   CASE err2.kind = "fatal" ->
                                          /\ Fatal(i, "HTTPStatusCodeCheck")
                                          /\ UNCHANGED << tpc, outcome >>
                                     [] err2.kind = "error" ->
                                          /\ Fatal(i, "SetRuleset")
                                          /\ outcome' = [outcome EXCEPT ![i] = "failed"]
                                          /\ UNCHANGED tpc
                                     [] OTHER ->
                                          /\ outcome' = [outcome EXCEPT ![i] = "applied"]
                                          /\ tpc' = [tpc EXCEPT ![i] = "release"]
                                          /\ UNCHANGED exitVars
    /\ ruleset' = ProtectionAfterConversion(ruleset)
    /\ UNCHANGED << cancelled, pc, fetched, repos, semVars, wait, obsRemaining,
                    resetIn, queries >>

\* the goroutine returns and its deferred calls run, last registered first:
\* <-semaphore frees the slot, then wg.Done(). The two are one step here:
\* the WaitGroup counter is read by wg.Wait() alone, which no goroutine
\* reaches before the loop has launched every repository.
Release(i) ==
    /\ exit = "none" /\ tpc[i] = "release"
    /\ semaphore' = semaphore - 1
    /\ wg' = wg - 1
    /\ tpc' = [tpc EXCEPT ![i] = "ended"]
    /\ status' = [status EXCEPT ![i] = 0]
    /\ obsRemaining' = [obsRemaining EXCEPT ![i] = -1]
    /\ resetIn' = [resetIn EXCEPT ![i] = 0]
    /\ wait' = [wait EXCEPT ![i] = 0]
    /\ UNCHANGED << cancelled, payloads, runVars, semaphoreCount, next, outcome, queries, calls,
                    rateVars, exitVars >>

-----------------------------------------------------------------------------
(* The environment: time passes *)

Tick ==
    /\ exit = "none" /\ pc \in {"loop", "wgWait"}
    /\ IF untilReset <= 1
       THEN /\ untilReset' = Window
            /\ remaining' = Budget
            /\ windowBudget' = Budget
            /\ issued' = 0
       ELSE /\ untilReset' = untilReset - 1
            /\ UNCHANGED << remaining, windowBudget, issued >>
    /\ wait' = [i \in DOMAIN wait |-> Max(wait[i] - 1, 0)]
    /\ resetIn' = [i \in DOMAIN resetIn |-> Max(resetIn[i] - 1, 0)]
    /\ UNCHANGED << cancelled, payloads, runVars, semVars, tpc, obsRemaining, status, outcome, queries,
                    calls, exitVars >>

\* the caller of SetRuleset cancels the ctx it handed over
Cancel ==
    /\ exit = "none" /\ pc \in {"loop", "wgWait"}
    /\ ~cancelled
    /\ cancelled' = TRUE
    /\ UNCHANGED << runVars, semVars, taskVars, rateVars, exitVars >>

-----------------------------------------------------------------------------
(* Specifications *)

\* setter.SetRuleset and its goroutines
NextApply ==
    \/ SetRulesetBegin
    \/ Launch
    \/ LoopEnd
    \/ WgWait
    \/ \E i \in DOMAIN tpc : Validate(i)
    \/ \E i \in DOMAIN tpc : checkAndHandleRateLimit(i)
    \/ \E i \in DOMAIN tpc : Wake(i)
    \/ \E i \in DOMAIN tpc : setBranchProtectionRules(i)
    \/ \E i \in DOMAIN tpc : Release(i)
    \/ Tick

\* executor.Run from its first call on
Next ==
    \/ getDefaultBranch
    \/ getBranchProtection
    \/ GetAllReposFromOrg
    \/ NextApply

Spec == Init /\ [][Next]_vars

\* The apply phase alone: Run has fetched the protection and a target list
\* and calls SetRuleset; the lists include one long enough for two slots.
InitApply ==
    /\ pc = "SetRuleset"
    /\ exit = "none" /\ exitBy = 0 /\ exitCause = ""
    /\ fetched = {"defaultBranch", "protection", "repos"}
    /\ ruleset \in SourceConfigs
    /\ repos \in TargetLists \cup BigLists
    /\ semaphoreCount = 0 /\ semaphore = 0 /\ wg = 0 /\ next = 0
    /\ tpc = NoTasks /\ wait = NoTasks /\ obsRemaining = NoTasks
    /\ resetIn = NoTasks /\ status = NoTasks /\ outcome = NoTasks
    /\ queries = NoTasks /\ calls = NoTasks /\ payloads = {}
    /\ cancelled = FALSE
    /\ remaining \in 0 .. Budget
    /\ windowBudget = remaining
    /\ untilReset \in 1 .. Window
    /\ issued = 0

SpecApply == InitApply /\ [][NextApply]_vars

\* The Go scheduler runs every goroutine that can take a step, every client
\* call returns, and time passes
Fairness ==
    /\ WF_vars(SetRulesetBegin)
    /\ WF_vars(Launch)
    /\ WF_vars(LoopEnd)
    /\ WF_vars(WgWait)
    /\ WF_vars(\E i \in DOMAIN tpc : Validate(i))
    /\ WF_vars(\E i \in DOMAIN tpc : checkAndHandleRateLimit(i))
    /\ WF_vars(\E i \in DOMAIN tpc : Wake(i))
    /\ WF_vars(\E i \in DOMAIN tpc : setBranchProtectionRules(i))
    /\ WF_vars(\E i \in DOMAIN tpc : Release(i))
    /\ WF_vars(Tick)

\* the apply phase under fair scheduling
SpecFair == InitApply /\ [][NextApply]_vars /\ Fairness

\* SetRuleset called with a ctx its caller may cancel at any time
SpecCancel == InitApply /\ [][NextApply \/ Cancel]_vars

\* The limit computation alone: SetRuleset is entered with lists of every
\* length up to MaxLen.
InitLimit ==
    /\ pc = "SetRuleset"
    /\ exit = "none" /\ exitBy = 0 /\ exitCause = ""
    /\ fetched = {"defaultBranch", "protection", "repos"}
    /\ ruleset \in SourceConfigs
    /\ \E n \in 0 .. MaxLen : repos = [i \in 1 .. n |-> "valid"]
    /\ semaphoreCount = 0 /\ semaphore = 0 /\ wg = 0 /\ next = 0
    /\ tpc = NoTasks /\ wait = NoTasks /\ obsRemaining = NoTasks
    /\ resetIn = NoTasks /\ status = NoTasks /\ outcome = NoTasks
    /\ queries = NoTasks /\ calls = NoTasks /\ payloads = {}
    /\ cancelled = FALSE
    /\ remaining = Budget
    /\ windowBudget = remaining
    /\ untilReset = Window
    /\ issued = 0

SpecLimit == InitLimit /\ [][SetRulesetBegin]_vars

\* The translation alone: two goroutines stand at line 63 of SetRuleset and
\* each hands the ruleset to convertProtectionToRequest; the ruleset is a nil
\* protection or one with any choice of its optional sections.
InitTranslate ==
    /\ pc = "wgWait"
    /\ exit = "none" /\ exitBy = 0 /\ exitCause = ""
    /\ fetched = {"defaultBranch", "protection", "repos"}
    /\ \/ ruleset = NilProtection
       \/ \E checks \in {"nil", "checks"}, reviews \in ReviewConfigs,
             admins \in {"nil", "true", "false"},
             restrictions \in RestrictionConfigs,
             lin \in {"nil", "true", "false"}, force \in {"nil", "true"},
             del \in {"nil", "false"}, conv \in {"nil", "true"} :
            ruleset = FullProtection(checks, reviews, admins, restrictions,
                                     lin, force, del, conv)
    /\ repos = << "valid", "valid" >>
    /\ semaphoreCount = 2 /\ semaphore = 2 /\ wg = 2 /\ next = 2
    /\ tpc = << "apply", "apply" >>
    /\ wait = << 0, 0 >> /\ obsRemaining = << Budget, Budget >>
    /\ resetIn = << 0, 0 >> /\ status = << 0, 0 >>
    /\ outcome = << "none", "none" >>
    /\ queries = << 1, 1 >> /\ calls = << 0, 0 >> /\ payloads = {}
    /\ cancelled = FALSE
    /\ remaining = Budget
    /\ windowBudget = remaining
    /\ untilReset = Window
    /\ issued = 0

\* line 63 of goroutine i: the call of convertProtectionToRequest alone
Convert(i) ==
    /\ exit = "none" /\ tpc[i] = "apply"
    /\ LET res == convertProtectionToRequest(ruleset) IN
         /\ payloads' = payloads \cup {res}
         /\ CASE res.kind = "fatal" ->
                   Fatal(i, "convertProtectionToRequest") /\ UNCHANGED tpc
              [] res.kind = "panic" ->
                   Panic(i, "convertProtectionToRequest") /\ UNCHANGED tpc
              [] OTHER ->
                   /\ tpc' = [tpc EXCEPT ![i] = "converted"]
                   /\ UNCHANGED exitVars
    /\ ruleset' = ProtectionAfterConversion(ruleset)
    /\ UNCHANGED << cancelled, pc, fetched, repos, semVars, wait, obsRemaining,
                    resetIn, status, outcome, queries, calls, rateVars >>

SpecTranslate == InitTranslate /\ [][\E i \in DOMAIN tpc : Convert(i)]_vars

-----------------------------------------------------------------------------
(* Properties *)

N == Len(repos)

\* SetRuleset has been entered: the per-repository records exist
Started == pc \in {"loop", "wgWait", "returned"}

\* goroutines launched that have not yet given their slot back
ActiveTasks == { i \in DOMAIN tpc : tpc[i] \in {"validate", "rate", "sleep", "apply", "release"} }

IsInvalid(i) == repos[i] # "valid"

\* the calls of the apply step that can end the process
ApplyCauses == {"UpdateBranchProtection", "HTTPStatusCodeCheck", "SetRuleset"}

\* the process was ended by the apply call of one repository
AbortedByApply == exit # "none" /\ exitBy # 0 /\ exitCause \in ApplyCauses

\* max(1, n div 10)
LimitFor(n) == IF n \div 10 > 1 THEN n \div 10 ELSE 1

\* C1: when the run ends (SetRuleset returns, or an apply response ends the
\* process), each of the N targets has exactly one outcome and was processed
\* at most once. The code ends the process on a failed apply, so targets are
\* left without an outcome.
C1_EveryTargetOneOutcome ==
    (pc = "returned" \/ AbortedByApply) =>
        \A i \in DOMAIN tpc :
            /\ outcome[i] \in {"applied", "skipped", "failed"}
            /\ queries[i] <= 1 /\ calls[i] <= 1

\* C2: a failed apply call of one target does not abort the run: the process
\* is never ended by the apply step of a repository.
C2_ApplyFailureDoesNotAbort == ~AbortedByApply

\* C3: the goroutines launched and not yet finished never outnumber
\* max(1, N div 10).
C3_BoundedConcurrency ==
    Started => Cardinality(ActiveTasks) <= LimitFor(N)

\* C3 witness: two slots, both taken, and a repository still to be launched
C3_Witness ==
    /\ pc = "loop" /\ next < N
    /\ LimitFor(N) = 2 /\ Cardinality(ActiveTasks) = 2

\* C4: the concurrency limit computed by SetRuleset is max(1, N div 10): it is
\* 1 for N from 0 to 19 and never 0.
C4_LimitFormula ==
    pc = "loop" =>
        /\ semaphoreCount = LimitFor(N)
        /\ semaphoreCount >= 1
        /\ (N <= 19 => semaphoreCount = 1)

\* C4 witness: the limit of an empty list has been computed
C4_Witness == pc = "loop" /\ N = 0 /\ semaphoreCount = 1

\* C5: the apply calls issued within one rate window never exceed the budget
\* that was left in that window (the budget check and the call are atomic
\* across goroutines).
C5_BudgetRespected == issued <= windowBudget

\* C6: a goroutine whose rate-limit query reported less than one remaining
\* request is ready to issue its apply call only once the reported reset time
\* has passed, and only such a goroutine is ever suspended.
C6_SuspendedUntilReset ==
    \A i \in DOMAIN tpc :
        /\ (tpc[i] = "apply" /\ obsRemaining[i] < 1) => resetIn[i] = 0
        /\ tpc[i] = "sleep" => obsRemaining[i] < 1

\* C6 witness: a goroutine that was told 0 remaining has slept past the reset
\* and is about to issue its apply call
C6_Witness ==
    \E i \in DOMAIN tpc :
        tpc[i] = "apply" /\ obsRemaining[i] = 0 /\ queries[i] = 1 /\ wait[i] = 0

\* C7: an invalid target (nil, no name, no default branch) is skipped: no
\* rate-limit query, no apply call, outcome skipped, the process not ended by
\* it; and a run that returns has applied every valid target.
C7_InvalidSkipped ==
    Started =>
        /\ \A i \in DOMAIN tpc :
              IsInvalid(i) =>
                /\ queries[i] = 0 /\ calls[i] = 0
                /\ tpc[i] \in {"none", "validate", "release", "ended"}
                /\ outcome[i] \in {"none", "skipped"}
                /\ tpc[i] \in {"release", "ended"} => outcome[i] = "skipped"
                /\ exitBy # i
        /\ pc = "returned" =>
              \A i \in DOMAIN tpc : ~IsInvalid(i) => outcome[i] = "applied"

\* C7 witness: the scenario's list with exactly one invalid entry has been
\* run to the end with one slot: the others applied, that one skipped
C7_Witness ==
    /\ pc = "returned" /\ N = ScenarioLen /\ semaphoreCount = 1
    /\ Cardinality({ i \in DOMAIN tpc : IsInvalid(i) }) = 1
    /\ Cardinality({ i \in DOMAIN tpc : outcome[i] = "skipped" }) = 1
    /\ Cardinality({ i \in DOMAIN tpc : outcome[i] = "applied" }) = N - 1

\* C8: an apply response with status 303 gives the outcome applied and the
\* run goes on.
C8_ExistingPatternIsApplied ==
    \A i \in DOMAIN tpc :
        status[i] = 303 => (outcome[i] = "applied" /\ exit = "none")

\* C9: an apply response with a 4xx or 5xx status gives the outcome failed for
\* that target, never applied, and never ends the process.
C9_ErrorStatusIsFailed ==
    \A i \in DOMAIN tpc :
        status[i] >= 400 => (outcome[i] = "failed" /\ exit = "none")

\* C10: no rate-limit query and no apply call is made before the source
\* protection and the ruleset collection have both been fetched.
C10_ReadBeforeApply ==
    (\E i \in DOMAIN tpc : queries[i] > 0 \/ calls[i] > 0) =>
        {"protection", "rulesets"} \subseteq fetched


\* C11: a rate-limit query that fails ends the process as fatal: the step in
\* which goroutine i's query fails leaves the process ended with no apply
\* call of i, and once the process is ended no apply call is issued.
C11_RateQueryFailureIsFatal ==
    [][ /\ \A i \in DOMAIN tpc :
             ( /\ tpc[i] = "rate" /\ queries'[i] = queries[i] + 1
               /\ tpc'[i] \notin {"sleep", "apply"} )
             => (exit' = "fatal" /\ exitBy' = i /\ calls'[i] = 0)
        /\ exit # "none" => calls' = calls ]_vars

\* C11 witness: the process was ended by the failed query of a goroutine that
\* issued no apply call, with a sibling not yet launched
C11_Witness ==
    /\ exit = "fatal" /\ exitCause = "RateLimits" /\ exitBy \in DOMAIN tpc
    /\ calls[exitBy] = 0 /\ queries[exitBy] = 1
    /\ \E j \in DOMAIN tpc : tpc[j] = "none"

\* a Go slice that is present (not nil) and holds nothing
PresentAndEmpty(slice) == ~slice.isNil /\ slice.elems = << >>

\* C12: for a source configuration without an access-restrictions section the
\* translated payload has a restrictions object whose users, teams and apps
\* lists are each present and empty, with enforce-admins and the required
\* approval count copied from the source.
C12_AbsentRestrictionsGiveEmptyLists ==
    \A p \in payloads :
        (p.kind = "ok" /\ ruleset.Restrictions.isNil) =>
            /\ ~p.request.Restrictions.isNil
            /\ PresentAndEmpty(p.request.Restrictions.Users)
            /\ PresentAndEmpty(p.request.Restrictions.Teams)
            /\ PresentAndEmpty(p.request.Restrictions.Apps)
            /\ ruleset.EnforceAdmins # "nil" =>
                   p.request.EnforceAdmins = ruleset.EnforceAdmins
            /\ ~ruleset.RequiredPullRequestReviews.isNil =>
                   p.request.RequiredPullRequestReviews.RequiredApprovingReviewCount
                     = ruleset.RequiredPullRequestReviews.RequiredApprovingReviewCount

\* the source configuration has no dismissal restrictions
NoDismissalRestrictions(protection) ==
    \/ protection.RequiredPullRequestReviews.isNil
    \/ protection.RequiredPullRequestReviews.DismissalRestrictions.isNil

\* C13: for a source configuration without dismissal restrictions (no review
\* section, or one without the sub-object) the translated payload has a
\* dismissal-restrictions entry whose user and team lists are present and
\* empty.
C13_NoDismissalGivesEmptyLists ==
    \A p \in payloads :
        (p.kind = "ok" /\ NoDismissalRestrictions(ruleset)) =>
            LET drr == p.request.RequiredPullRequestReviews.DismissalRestrictionsRequest
            IN  /\ ~p.request.RequiredPullRequestReviews.isNil
                /\ ~drr.isNil
                /\ PresentAndEmpty(drr.Users)
                /\ PresentAndEmpty(drr.Teams)

\* the flag the payload is to carry for a sub-object of the source: its
\* value, false when the sub-object is absent
FlagOrFalse(sub) == IF sub = "nil" THEN "false" ELSE sub

\* C14: once a source configuration (the pointer itself not nil) has been
\* handed to the translation, the translation has returned a payload, and
\* each of the linear-history, force-push, deletion and
\* conversation-resolution flags is the source's value, false for an absent
\* sub-object.
C14_AbsentSubObjectIsFalse ==
    \A p \in payloads :
        ~ruleset.isNil =>
            /\ p.kind = "ok"
            /\ exit = "none"
            /\ p.request.RequireLinearHistory
                 = FlagOrFalse(ruleset.RequireLinearHistory)
            /\ p.request.AllowForcePushes
                 = FlagOrFalse(ruleset.AllowForcePushes)
            /\ p.request.AllowDeletions
                 = FlagOrFalse(ruleset.AllowDeletions)
            /\ p.request.RequiredConversationResolution
                 = FlagOrFalse(ruleset.RequiredConversationResolution)

C18_OneQueryBeforeEachApply ==
    \A i \in DOMAIN tpc :
        /\ queries[i] <= 1 /\ calls[i] <= 1
        /\ calls[i] = 1 => queries[i] = 1
        /\ tpc[i] \in {"none", "validate"} => (queries[i] = 0 /\ calls[i] = 0)
        /\ tpc[i] = "sleep" => (queries[i] = 1 /\ calls[i] = 0)
        /\ tpc[i] = "apply" =>
               /\ queries[i] = 1
               /\ calls[i] = 0 \/ (exit = "fatal" /\ exitBy = i)
        /\ (tpc[i] \in {"release", "ended"} /\ ~IsInvalid(i)) =>
               (queries[i] = 1 /\ calls[i] = 1)
        /\ IsInvalid(i) => (queries[i] = 0 /\ calls[i] = 0)

\* C18 witness: with two slots, one goroutine has made its query and its
\* call, a second one has made its own query and stands before its call
C18_Witness ==
    /\ semaphoreCount = 2
    /\ \E i \in DOMAIN tpc : \E j \in DOMAIN tpc :
         /\ i # j
         /\ tpc[i] = "release" /\ queries[i] = 1 /\ calls[i] = 1
         /\ tpc[j] = "apply" /\ queries[j] = 1 /\ calls[j] = 0

\* C19: once SetRuleset has been handed the fetched protection, no step of
\* the dispatcher or of any goroutine changes any field of it.
C19_SourceConfigNeverModified ==
    [][ "protection" \in fetched => ruleset' = ruleset ]_vars

\* C19 witness: the protection has been translated and applied for several
\* repositories, two of them by goroutines running at the same time
C19_Witness ==
    /\ N = BigLen
    /\ Cardinality({ i \in DOMAIN tpc : calls[i] = 1 }) >= 3
    /\ \E i \in DOMAIN tpc : \E j \in DOMAIN tpc :
         i # j /\ tpc[i] = "release" /\ tpc[j] = "release"

\* C20: slot accounting is exact: the slots taken are those of the
\* goroutines launched and not yet finished, never more than the limit, and
\* all slots are free and the WaitGroup counter is zero when SetRuleset has
\* returned.
C20_SlotAccountingExact ==
    Started =>
        /\ semaphore = Cardinality(ActiveTasks)
        /\ semaphore >= 0 /\ semaphore <= semaphoreCount
        /\ wg = semaphore
        /\ pc = "returned" => (semaphore = 0 /\ ActiveTasks = {})

\* C20 witness: a run over a list with a skipped and an applied repository
\* has returned with every slot free
C20_Witness ==
    /\ pc = "returned" /\ semaphore = 0
    /\ \E i \in DOMAIN tpc : outcome[i] = "skipped" /\ tpc[i] = "ended"
    /\ \E i \in DOMAIN tpc : outcome[i] = "applied" /\ tpc[i] = "ended"

\* C16: once the ctx is cancelled no further goroutine is launched, the
\* process is not ended, and the outcomes recorded so far stay as they are.
C16_NoAdmissionAfterCancel ==
    [][ cancelled =>
          /\ next' = next
          /\ exit' = "none"
          /\ \A i \in DOMAIN outcome :
                outcome[i] # "none" => outcome'[i] = outcome[i] ]_vars

\* C17: under fair scheduling, with every client call returning, SetRuleset
\* eventually returns (the one other end allowed for is the failed rate-limit
\* query, which is fatal by design), and it has not returned while a
\* goroutine it launched is still running.
C17_RunReturnsAfterEveryTask ==
    /\ <>(pc = "returned" \/ (exit = "fatal" /\ exitCause = "RateLimits"))
    /\ [](pc = "returned" => \A i \in DOMAIN tpc : tpc[i] = "ended")

\* goroutines asleep in checkAndHandleRateLimit until the rate limit resets
Suspended == { i \in DOMAIN tpc : tpc[i] = "sleep" }

\* C21: a goroutine asleep until the rate limit resets keeps its slot: the
\* sleepers are among the goroutines holding a slot, no step launches a
\* repository while as many goroutines as there are slots are asleep, and a
\* repository is launched only when a slot has been given back.
C21_SuspendedTaskKeepsSlot ==
    [][ pc = "loop" =>
          /\ Suspended \subseteq ActiveTasks
          /\ Cardinality(Suspended) <= semaphore
          /\ Cardinality(Suspended) = semaphoreCount => next' = next
          /\ next' # next => semaphore < semaphoreCount ]_vars

\* C21 witness: both slots are held by goroutines that are asleep, after an
\* earlier goroutine has finished, and repositories are still to be launched
C21_Witness ==
    /\ pc = "loop" /\ next < N
    /\ semaphoreCount = 2 /\ Cardinality(Suspended) = 2
    /\ \A i \in Suspended : wait[i] > 0
    /\ \E i \in DOMAIN tpc : tpc[i] = "ended"


====
